---- MODULE Spec2Model ----
(***************************************************************************)
(* Model of the resume-improvement workflow of elvin-011/Resume-Improver:  *)
(* the FastAPI backend (src/main.py) and its Streamlit clients (src/app.py *)
(* and "app copy 3.py" in src/unnamed/part_000).                           *)
(*                                                                         *)
(* Texts are TLA+ strings; TLC evaluates Len, \o, Head, Tail and SubSeq on *)
(* them, so the parsers below work character by character as the Python   *)
(* code does.                                                              *)
(***************************************************************************)
EXTENDS Integers, Sequences, FiniteSets, TLC

(***************************************************************************)
(* Python string primitives                                                *)
(***************************************************************************)

\* s[i:i+1]: the character at index i (1-based), "" outside the string
Char(s, i) == IF 1 <= i /\ i <= Len(s) THEN SubSeq(s, i, i) ELSE ""

\* str.strip() with no argument removes these (ASCII part of str.isspace)
WHITESPACE == {" ", "\n", "\t", "\r", "\f"}

DIGITS == "0123456789"

ASCII_UPPER == "ABCDEFGHIJKLMNOPQRSTUVWXYZ"

ASCII_LOWER == "abcdefghijklmnopqrstuvwxyz"

\* str.find(sub, i): the first index >= i at which sub occurs in s, 0 if none
find(s, sub, i) ==
    LET hits == {k \in i..(Len(s) - Len(sub) + 1) : SubSeq(s, k, k + Len(sub) - 1) = sub}
    IN  IF hits = {} THEN 0 ELSE CHOOSE k \in hits : \A j \in hits : k <= j

\* the Python test  sub in s
contains(s, sub) == find(s, sub, 1) # 0

\* str.replace(old, new): one left-to-right pass over non-overlapping occurrences
RECURSIVE replace(_, _, _)
replace(s, old, new) ==
    LET i == find(s, old, 1)
    IN  IF i = 0 THEN s
        ELSE SubSeq(s, 1, i - 1) \o new
                 \o replace(SubSeq(s, i + Len(old), Len(s)), old, new)

\* the index of the first (last) character str.strip() keeps, 0 if it keeps none
first_non_space(s) ==
    IF \A i \in 1..Len(s) : Char(s, i) \in WHITESPACE THEN 0
    ELSE CHOOSE i \in 1..Len(s) :
             Char(s, i) \notin WHITESPACE /\ \A j \in 1..(i - 1) : Char(s, j) \in WHITESPACE

last_non_space(s) ==
    IF \A i \in 1..Len(s) : Char(s, i) \in WHITESPACE THEN 0
    ELSE CHOOSE i \in 1..Len(s) :
             Char(s, i) \notin WHITESPACE /\ \A j \in (i + 1)..Len(s) : Char(s, j) \in WHITESPACE

\* str.strip()
strip(s) ==
    LET a == first_non_space(s)
    IN  IF a = 0 THEN "" ELSE SubSeq(s, a, last_non_space(s))

lower_char(c) ==
    LET k == find(ASCII_UPPER, c, 1)
    IN  IF k = 0 THEN c ELSE Char(ASCII_LOWER, k)

\* str.lower(); also the case folding of re.IGNORECASE
RECURSIVE lower(_)
lower(s) ==
    IF Len(s) = 0 THEN ""
    ELSE IF Len(s) = 1 THEN lower_char(s)
    ELSE lower(SubSeq(s, 1, Len(s) \div 2)) \o lower(SubSeq(s, Len(s) \div 2 + 1, Len(s)))

is_digit(c) == c # "" /\ contains(DIGITS, c)

\* int() of a string of decimal digits
RECURSIVE int(_)
int(d) ==
    IF d = "" THEN 0
    ELSE 10 * int(SubSeq(d, 1, Len(d) - 1)) + (find(DIGITS, Char(d, Len(d)), 1) - 1)

\* the index of the last digit of the greedy run \d+ that starts at index i
RECURSIVE digits_end(_, _)
digits_end(s, i) ==
    IF i < Len(s) /\ is_digit(Char(s, i + 1)) THEN digits_end(s, i + 1) ELSE i

\* re.search(label + r"(\d+)", s, re.IGNORECASE): the start of the leftmost
\* match at or after index i, 0 if there is none; folded is lower(s)
RECURSIVE search_number_from(_, _, _)
search_number_from(folded, label, i) ==
    LET at == find(folded, lower(label), i)
    IN  IF at = 0 THEN 0
        ELSE IF is_digit(Char(folded, at + Len(label))) THEN at
        ELSE search_number_from(folded, label, at + 1)

\* the search without re.IGNORECASE: the leftmost index where label, written
\* as it is, is followed by a digit
re_search_number_case_sensitive(label, s) ==
    LET hits == {k \in 1..Len(s) :
                    /\ k + Len(label) <= Len(s)
                    /\ SubSeq(s, k, k + Len(label) - 1) = label
                    /\ is_digit(Char(s, k + Len(label)))}
    IN  IF hits = {} THEN 0 ELSE CHOOSE k \in hits : \A h \in hits : k <= h

re_search_number(label, s) == search_number_from(lower(s), label, 1)

\* match.group(1) of the match that starts at index at
group_1(label, s, at) ==
    SubSeq(s, at + Len(label), digits_end(s, at + Len(label)))

\* re.sub(label + r"\d+", "", s, flags=re.IGNORECASE)
RECURSIVE re_sub_number(_, _)
re_sub_number(label, s) ==
    LET at == re_search_number(label, s)
    IN  IF at = 0 THEN s
        ELSE SubSeq(s, 1, at - 1)
                 \o re_sub_number(label,
                        SubSeq(s, digits_end(s, at + Len(label)) + 1, Len(s)))

\* re.search(pattern, s, re.IGNORECASE).start() for a literal pattern, 0 if none
re_search_literal(pattern, s) == find(lower(s), lower(pattern), 1)

\* the second argument, whatever the first is
Max_second(a, b) == b

Max(a, b) == IF a >= b THEN a ELSE b

(***************************************************************************)
(* Backend constants (main.py)                                             *)
(***************************************************************************)

DEFAULT_JD == "No job description provided."

WEAKNESS_RESOLVED == "[WEAKNESS_RESOLVED]"

BUILD_COMPLETE == "[BUILD_COMPLETE]"

SUMMARY_FALLBACK == "Here is the analysis of your resume:"

(***************************************************************************)
(* run_analysis: what it makes of the engine's text (main.py 288-324)      *)
(***************************************************************************)

\* a test for a blank job description in place of the test for the sentinel
is_blank_request(jd_text) == jd_text = ""

is_general_request(jd_text) == jd_text = DEFAULT_JD

parse_ats_score(text, jd_text) ==
    LET at == re_search_number("ATS Score: ", text)
    IN  IF ~is_general_request(jd_text) /\ at # 0
        THEN int(group_1("ATS Score: ", text, at))
        ELSE 0

parse_total_weaknesses(text) ==
    LET at == re_search_number("Total Weaknesses: ", text)
    IN  IF at # 0 THEN int(group_1("Total Weaknesses: ", text, at)) ELSE 1

\* analysis_text and weakness_list_text after the split at the header
split_sections(text) ==
    LET at == re_search_literal("Weaknesses:", text)
    IN  IF at # 0
        THEN [analysis_text      |-> SubSeq(text, 1, at - 1),
              weakness_list_text |-> SubSeq(text, at, Len(text))]
        ELSE [analysis_text |-> text, weakness_list_text |-> ""]

clean_analysis_text(analysis_text) ==
    re_sub_number("Total Weaknesses: ", re_sub_number("ATS Score: ", analysis_text))

clean_weakness_list_text(weakness_list_text) ==
    re_sub_number("Total Weaknesses: ", weakness_list_text)

summary_or_fallback(analysis_text) ==
    IF strip(analysis_text) = "" \/ lower(strip(analysis_text)) = "none"
    THEN SUMMARY_FALLBACK
    ELSE analysis_text

final_analysis(text) ==
    LET parts == split_sections(text)
    IN  strip(strip(summary_or_fallback(clean_analysis_text(parts.analysis_text)))
              \o "\n\n"
              \o strip(clean_weakness_list_text(parts.weakness_list_text)))

run_analysis(text, jd_text) ==
    [analysis_results |-> final_analysis(text),
     ats_score        |-> parse_ats_score(text, jd_text),
     total_weaknesses |-> Max(1, parse_total_weaknesses(text))]

(***************************************************************************)
(* chat_endpoint and build_chat_endpoint: marker parsing                   *)
(***************************************************************************)

\* the reply trimmed before, not after, its marker is removed
chat_endpoint_strip_first(ai_response_text) ==
    [ai_response       |-> replace(strip(ai_response_text), WEAKNESS_RESOLVED, ""),
     weakness_resolved |-> contains(ai_response_text, WEAKNESS_RESOLVED)]

chat_endpoint(ai_response_text) ==
    [ai_response       |-> strip(replace(ai_response_text, WEAKNESS_RESOLVED, "")),
     weakness_resolved |-> contains(ai_response_text, WEAKNESS_RESOLVED)]

\* the parser with the completion flag raised by every reply
build_chat_endpoint_always_complete(ai_response_text) ==
    [ai_response    |-> strip(replace(ai_response_text, BUILD_COMPLETE, "")),
     build_complete |-> TRUE]

build_chat_endpoint(ai_response_text) ==
    [ai_response    |-> strip(replace(ai_response_text, BUILD_COMPLETE, "")),
     build_complete |-> contains(ai_response_text, BUILD_COMPLETE)]

(***************************************************************************)
(* generate_resume_endpoint: character normalisation (main.py 550-573).    *)
(* The engine's resume text is a sequence of Unicode code points here,     *)
(* since it is the non-ASCII characters that matter.                       *)
(***************************************************************************)

\* the dict with the hyphen-minus where the em dash should be the key
replacements_hyphen_key(c) ==
    CASE c = 8211 -> <<45>>
      [] c = 45   -> <<45, 45>>
      [] c = 8216 -> <<39>>
      [] c = 8217 -> <<39>>
      [] c = 8220 -> <<34>>
      [] c = 8221 -> <<34>>
      [] c = 8226 -> <<45>>
      [] OTHER    -> <<c>>

\* the replacements dict, code point -> replacement code points
replacements(c) ==
    CASE c = 8211 -> <<45>>
      [] c = 8212 -> <<45, 45>>
      [] c = 8216 -> <<39>>
      [] c = 8217 -> <<39>>
      [] c = 8220 -> <<34>>
      [] c = 8221 -> <<34>>
      [] c = 8226 -> <<45>>
      [] OTHER    -> <<c>>

RECURSIVE replace_unsupported(_)
replace_unsupported(text) ==
    IF text = <<>> THEN <<>>
    ELSE replacements(Head(text)) \o replace_unsupported(Tail(text))

\* the text handed on without the encoding step
latin_1_unchecked(text) == text

\* text.encode('latin-1', 'replace').decode('latin-1')
latin_1_replace(text) == [i \in 1..Len(text) |-> IF text[i] <= 255 THEN text[i] ELSE 63]

safe_text(final_resume_text) == latin_1_replace(replace_unsupported(final_resume_text))

\* the body of the StreamingResponse: the PDF FPDF makes of safe_text
pdf_bytes(final_resume_text) == <<37, 80, 68, 70>> \o safe_text(final_resume_text)

(***************************************************************************)
(* The engine (model.generate_content) and the other inputs                *)
(***************************************************************************)

\* a reply of the engine: its text, or an exception
ENGINE_ERROR == [ok |-> FALSE]

engine_replies(texts) == {[ok |-> TRUE, text |-> t] : t \in texts} \cup {ENGINE_ERROR}

RESUME == "Jane Doe\nEngineer at Acme, 2019-2024\nI was responsible for builds."

\* what extract_text_from_file is given: the kind of file and the text in it
UPLOADS ==
    {[kind |-> "txt",   text |-> RESUME, readable |-> TRUE],
     [kind |-> "txt",   text |-> "Jane Doe", readable |-> TRUE],
     [kind |-> "pdf",   text |-> "",     readable |-> TRUE],
     [kind |-> "pdf",   text |-> RESUME, readable |-> FALSE],
     [kind |-> "other", text |-> RESUME, readable |-> TRUE]}

\* what the user types into the job description box
JD_INPUTS == {"", "Python developer"}

ANALYSIS_TEXTS ==
    {"ATS Score: 87\nSolid resume.\n\nWeaknesses:\n1. Weak verbs\n2. No metrics\nTotal Weaknesses: 2",
     "None\nWeaknesses:\n1. Weak verbs\nTotal Weaknesses: 0",
     "ATS Score: 150\nStrong match.\n\nWeaknesses:\n1. Typos\nTotal Weaknesses: 1",
     "Looks fine."}

START_CHAT_TEXTS == {"Hi! First: weak verbs. What did you build?", " "}

\* the engine's chat replies: one without the marker, one that resolves two
\* sections at once and states the marker for each
CHAT_TEXTS ==
    {"Tell me more.",
     "Great, both sections look solid.\n[WEAKNESS_RESOLVED]\n[WEAKNESS_RESOLVED]"}

USER_TEXTS == {"I led a team of 5.", "I cut costs by 20%."}

\* what the user answers in the interview
BUILD_USER_TEXTS == {"My name is Jane Doe."}

BUILD_TEXTS == {"What is your email?", "Thanks, that is all.\n[BUILD_COMPLETE]"}

SYNTHESIS_TEXTS == {RESUME, "Jane Doe"}

\* the engine's final resume text, as code points: "A", en dash, bullet, CJK
FINAL_RESUME_TEXTS == {<<74, 8211, 8226, 26085>>}

TEMPLATE_OPTIONS == {"classic", "modern", "skills_first"}

\* datetime.now().strftime("%B %d, %Y")
DATES == {"November 05, 2026"}

\* longest chat history the model follows
MaxMessages == 5

(***************************************************************************)
(* State                                                                   *)
(***************************************************************************)

VARIABLES
    client,          \* which front end runs: "app" (app.py) or "app_copy_3"
    session_state,   \* st.session_state: the keys present and their values
    http,            \* the request this run of the script made and its response
    resolved_turns,  \* history: chat replies with weakness_resolved since the analysis
    p_pc,            \* parser check: "input", then the parser that was applied
    p_frags,         \* parser check: the pieces the engine's text is made of
                     \* (text fragments; code points for the normalisation)
    p_jd,            \* parser check: the job description of the request
    p_result         \* parser check: what the parser returned

vars == <<client, session_state, http, resolved_turns, p_pc, p_frags, p_jd, p_result>>

session_vars == <<client, session_state, http, resolved_turns>>

parser_vars == <<p_pc, p_frags, p_jd, p_result>>

\* final_pdf_bytes = None
NONE == <<>>

NO_PROMPT == [template |-> "none"]

NO_REQUEST == [endpoint |-> "none", payload |-> [jd_text |-> ""], prompt |-> NO_PROMPT,
               status_code |-> 0, data |-> [detail |-> ""]]

(***************************************************************************)
(* Backend (main.py): each endpoint returns the prompt it sent to the      *)
(* engine and its response                                                 *)
(***************************************************************************)

variant(jd_text) == IF is_general_request(jd_text) THEN "general" ELSE "targeted"

error_response(prompt, status_code, detail) ==
    [prompt |-> prompt, status_code |-> status_code, data |-> [detail |-> detail]]

\* main.py 169-199
extract_text_from_file(file) ==
    IF ~file.readable THEN [status_code |-> 500, text |-> ""]
    ELSE IF file.kind \in {"txt", "pdf"} THEN [status_code |-> 200, text |-> file.text]
    ELSE [status_code |-> 500, text |-> ""]

run_analysis_prompt(resume_text, jd_text, today) ==
    IF is_general_request(jd_text)
    THEN [template |-> "analysis", variant |-> "general", today |-> today,
          resume_text |-> resume_text]
    ELSE [template |-> "analysis", variant |-> "targeted", today |-> today,
          resume_text |-> resume_text, jd_text |-> jd_text]

\* run_analysis with the engine's reply, then the endpoint's return
analysis_response(resume_text, jd_text, today, reply) ==
    LET prompt == run_analysis_prompt(resume_text, jd_text, today)
    IN  IF ~reply.ok THEN error_response(prompt, 500, "Error during AI analysis")
        ELSE [prompt |-> prompt, status_code |-> 200,
              data |-> [resume_text |-> resume_text] @@ run_analysis(reply.text, jd_text)]

\* the endpoint without its check for an empty extraction
analyze_resume_endpoint_unchecked(file, jd_text, today, reply) ==
    LET extracted == extract_text_from_file(file)
    IN  IF extracted.status_code # 200
        THEN error_response(NO_PROMPT, extracted.status_code, "Error processing file")
        ELSE analysis_response(extracted.text, jd_text, today, reply)

\* main.py 379-391
analyze_resume_endpoint(file, jd_text, today, reply) ==
    LET extracted == extract_text_from_file(file)
    IN  IF extracted.status_code # 200
        THEN error_response(NO_PROMPT, extracted.status_code, "Error processing file")
        ELSE IF extracted.text = ""
        THEN error_response(NO_PROMPT, 400, "Could not extract text from file.")
        ELSE analysis_response(extracted.text, jd_text, today, reply)

START_CHAT_FALLBACK ==
    "I'm sorry, I had an error processing that request. Let's start with your first work experience. Can you tell me about it?"

\* the endpoint without its check for an empty opening message
start_chat_endpoint_no_fallback(request, reply) ==
    LET prompt == [template |-> "start_chat", analysis_results |-> request.analysis_results]
    IN  IF ~reply.ok THEN error_response(prompt, 500, "Error starting chat")
        ELSE [prompt |-> prompt, status_code |-> 200,
              data |-> [first_ai_message |-> reply.text]]

\* main.py 394-415
start_chat_endpoint(request, reply) ==
    LET prompt == [template |-> "start_chat", analysis_results |-> request.analysis_results]
    IN  IF ~reply.ok THEN error_response(prompt, 500, "Error starting chat")
        ELSE [prompt |-> prompt, status_code |-> 200,
              data |-> [first_ai_message |->
                            IF strip(reply.text) = "" THEN START_CHAT_FALLBACK
                            ELSE reply.text]]

\* a prompt that quotes what the server kept of the request before
chat_prompt_remembering(request, today) ==
    [template |-> "chat", variant |-> variant(request.jd_text), today |-> today,
     resume_text |-> request.resume_text,
     analysis_results |-> request.analysis_results,
     jd_text |-> request.jd_text,
     messages |-> request.messages,
     user_prompt |-> request.messages[Len(request.messages)].content,
     last_request |-> http.payload]

chat_prompt(request, today) ==
    LET user_prompt == request.messages[Len(request.messages)].content
    IN  IF is_general_request(request.jd_text)
        THEN [template |-> "chat", variant |-> "general", today |-> today,
              resume_text |-> request.resume_text,
              analysis_results |-> request.analysis_results,
              messages |-> request.messages, user_prompt |-> user_prompt]
        ELSE [template |-> "chat", variant |-> "targeted", today |-> today,
              resume_text |-> request.resume_text,
              analysis_results |-> request.analysis_results,
              jd_text |-> request.jd_text,
              messages |-> request.messages, user_prompt |-> user_prompt]

\* main.py 418-479
chat_response(request, today, reply) ==
    LET prompt == chat_prompt(request, today)
    IN  IF ~reply.ok THEN error_response(prompt, 500, "Error in chat response")
        ELSE [prompt |-> prompt, status_code |-> 200, data |-> chat_endpoint(reply.text)]

\* the lookup without its default
template_str_requested(template_name) == template_name

\* TEMPLATES.get(template_name, TEMPLATES["classic"])
template_str(template_name) ==
    IF template_name \in TEMPLATE_OPTIONS THEN template_name ELSE "classic"

\* a prompt that also quotes the file generated before
synthesis_prompt_with_last_file(request) ==
    [template |-> "synthesis", variant |-> variant(request.jd_text),
     template_str |-> template_str(request.template_name),
     resume_text |-> request.resume_text, messages |-> request.messages,
     jd_text |-> request.jd_text,
     last_file |-> IF "final_pdf_name" \in DOMAIN session_state
                   THEN session_state.final_pdf_name ELSE ""]

synthesis_prompt(request) ==
    IF is_general_request(request.jd_text)
    THEN [template |-> "synthesis", variant |-> "general",
          template_str |-> template_str(request.template_name),
          resume_text |-> request.resume_text, messages |-> request.messages]
    ELSE [template |-> "synthesis", variant |-> "targeted",
          template_str |-> template_str(request.template_name),
          resume_text |-> request.resume_text, messages |-> request.messages,
          jd_text |-> request.jd_text]

\* a response that is sent although FPDF failed, with the bytes made so far
generate_resume_endpoint_partial(request, reply, renders) ==
    LET prompt == synthesis_prompt(request)
    IN  IF ~reply.ok THEN error_response(prompt, 500, "Error generating PDF")
        ELSE [prompt |-> prompt, status_code |-> 200,
              data |-> [content  |-> IF renders THEN pdf_bytes(reply.text) ELSE <<37, 80>>,
                        filename |-> "improved_resume_" \o request.template_name \o ".pdf"]]

\* main.py 482-582; renders is whether FPDF produced the document
generate_resume_endpoint(request, reply, renders) ==
    LET prompt == synthesis_prompt(request)
    IN  IF ~reply.ok \/ ~renders THEN error_response(prompt, 500, "Error generating PDF")
        ELSE [prompt |-> prompt, status_code |-> 200,
              data |-> [content  |-> pdf_bytes(reply.text),
                        filename |-> "improved_resume_" \o request.template_name \o ".pdf"]]

\* main.py 609-620: no engine call, the message is the prompt variant itself
start_build_chat_endpoint(request) ==
    [prompt |-> [template |-> "start_build", variant |-> variant(request.jd_text)],
     status_code |-> 200,
     data |-> [first_ai_message |->
                   IF is_general_request(request.jd_text)
                   THEN "Hi! I'm here to help you build a new resume from scratch. Let's start with the basics. What is your full name?"
                   ELSE "Hi! I see you want to build a new resume targeted at a job. I'll ask you questions to build it. Let's start with your full name."]]

build_prompt(request) ==
    LET user_prompt == request.messages[Len(request.messages)].content
    IN  IF is_general_request(request.jd_text)
        THEN [template |-> "build", variant |-> "general",
              messages |-> request.messages, user_prompt |-> user_prompt]
        ELSE [template |-> "build", variant |-> "targeted", jd_text |-> request.jd_text,
              messages |-> request.messages, user_prompt |-> user_prompt]

\* main.py 623-698
build_chat_response(request, reply) ==
    LET prompt == build_prompt(request)
    IN  IF ~reply.ok THEN error_response(prompt, 500, "Error in build-chat response")
        ELSE [prompt |-> prompt, status_code |-> 200,
              data |-> build_chat_endpoint(reply.text)]

MIN_SYNTHESIZED_LENGTH == 50

\* main.py 701-733: synthesize, then analyse the synthesized text
synthesize_and_analyze_endpoint(request, today, synthesis, reply) ==
    LET prompt == [template |-> "build_synthesis", messages |-> request.messages]
    IN  IF ~synthesis.ok \/ Len(synthesis.text) < MIN_SYNTHESIZED_LENGTH
        THEN error_response(prompt, 500, "Error during synthesize/analyze")
        ELSE LET analysed == analysis_response(synthesis.text, request.jd_text, today, reply)
             IN  IF analysed.status_code # 200
                 THEN error_response(analysed.prompt, 500, "Error during synthesize/analyze")
                 ELSE analysed

(***************************************************************************)
(* Front end (app.py, and app copy 3.py where it differs)                  *)
(***************************************************************************)

\* requests.post: the backend's response, or a ConnectionError (status_code 0)
post(endpoint, payload, connected, response) ==
    IF connected
    THEN [endpoint |-> endpoint, payload |-> payload, prompt |-> response.prompt,
          status_code |-> response.status_code, data |-> response.data]
    ELSE [endpoint |-> endpoint, payload |-> payload, prompt |-> NO_PROMPT,
          status_code |-> 0, data |-> [detail |-> "ConnectionError"]]

\* st.session_state.<key> = <value> for every key of updates
assign(updates) == updates @@ session_state

message(role, content) == [role |-> role, content |-> content]

\* app.py 203-213
clear_session_app ==
    [app_state |-> "home", resume_text |-> "", analysis_results |-> "", messages |-> <<>>,
     ats_score |-> 0, total_weaknesses |-> 0, weaknesses_covered |-> 0,
     final_pdf_bytes |-> NONE, final_pdf_name |-> "", jd_text |-> ""]

\* the job description box of the welcome page: st.session_state.jd_text after it is drawn
welcome_jd_text(jd_text) == IF jd_text = "" THEN DEFAULT_JD ELSE jd_text

\* a reset that assigns its four keys without deleting the others first
clear_session_copy_3_keeping_keys ==
    [app_state |-> "welcome",
     jd_text |-> welcome_jd_text(IF session_state.app_state = "welcome" THEN ""
                                 ELSE session_state.jd_text),
     messages |-> <<>>, build_messages |-> <<>>] @@ session_state

\* app copy 3.py 603-623, followed by the welcome page it leads to (283-296)
clear_session_copy_3 ==
    [app_state |-> "welcome",
     jd_text |-> welcome_jd_text(IF session_state.app_state = "welcome" THEN ""
                                 ELSE session_state.jd_text),
     messages |-> <<>>, build_messages |-> <<>>]

\* the state the first run of the script leaves (app.py 219-221, copy 3 629-632)
first_run(c) ==
    IF c = "app" THEN clear_session_app
    ELSE [app_state |-> "welcome", jd_text |-> DEFAULT_JD,
          messages |-> <<>>, build_messages |-> <<>>]

clear_session ==
    /\ session_state' = IF client = "app" THEN clear_session_app ELSE clear_session_copy_3
    /\ resolved_turns' = 0
    /\ http' = NO_REQUEST
    /\ UNCHANGED <<client, parser_vars>>

\* app copy 3.py 290-296: the user edits the job description on the welcome page
edit_job_description(jd_input) ==
    /\ client = "app_copy_3"
    /\ session_state.app_state = "welcome"
    /\ session_state' = assign([jd_text |-> welcome_jd_text(jd_input)])
    /\ http' = NO_REQUEST
    /\ UNCHANGED <<client, resolved_turns, parser_vars>>

\* app copy 3.py 302-304
improve_existing_resume ==
    /\ client = "app_copy_3"
    /\ session_state.app_state = "welcome"
    /\ session_state' = assign([app_state |-> "upload_mode"])
    /\ http' = NO_REQUEST
    /\ UNCHANGED <<client, resolved_turns, parser_vars>>

\* a store that sends the session straight to the chat
store_analysis_to_chat(data) ==
    [resume_text |-> data.resume_text, analysis_results |-> data.analysis_results,
     ats_score |-> data.ats_score, total_weaknesses |-> data.total_weaknesses,
     weaknesses_covered |-> 0, final_pdf_bytes |-> NONE, app_state |-> "chat_mode"]

\* a store that misses the count of the response and keeps the default 1
store_analysis_default_total(data) ==
    [resume_text |-> data.resume_text, analysis_results |-> data.analysis_results,
     ats_score |-> data.ats_score, total_weaknesses |-> 1,
     weaknesses_covered |-> 0, final_pdf_bytes |-> NONE, app_state |-> "analysis_done"]

\* what a successful analysis stores (app.py 63-71, copy 3 349-356 and 584-595)
store_analysis(data) ==
    [resume_text |-> data.resume_text, analysis_results |-> data.analysis_results,
     ats_score |-> data.ats_score, total_weaknesses |-> data.total_weaknesses,
     weaknesses_covered |-> 0, final_pdf_bytes |-> NONE, app_state |-> "analysis_done"]

\* app.py 50-81, copy 3 337-366: the Analyze Resume button with a file chosen
analyze_resume(file, jd_input, today, reply, connected) ==
    /\ \/ client = "app" /\ session_state.app_state = "home"
       \/ client = "app_copy_3" /\ session_state.app_state = "upload_mode"
    /\ LET jd_text_to_send ==
               IF client = "app"
               THEN (IF jd_input = "" THEN DEFAULT_JD ELSE jd_input)
               ELSE session_state.jd_text
           response == post("/analyze", [jd_text |-> jd_text_to_send], connected,
                            analyze_resume_endpoint(file, jd_text_to_send, today, reply))
       IN  /\ http' = response
           /\ session_state' =
                  IF response.status_code # 200 THEN session_state
                  ELSE IF client = "app"
                  THEN assign([jd_text |-> jd_text_to_send] @@ store_analysis(response.data))
                  ELSE assign(store_analysis(response.data))
           /\ resolved_turns' = IF response.status_code = 200 THEN 0 ELSE resolved_turns
    /\ UNCHANGED <<client, parser_vars>>

\* a start of the chat that also empties the resume text
start_improvement_clearing_resume(reply, connected) ==
    /\ session_state.app_state = "analysis_done"
    /\ LET payload == [analysis_results |-> session_state.analysis_results]
           response == post("/start-chat", payload, connected,
                            start_chat_endpoint(payload, reply))
       IN  /\ http' = response
           /\ session_state' =
                  IF response.status_code # 200 THEN session_state
                  ELSE assign([app_state |-> "chat_mode", resume_text |-> "",
                               messages |-> <<message("assistant",
                                                      response.data.first_ai_message)>>])
    /\ UNCHANGED <<client, resolved_turns, parser_vars>>

\* app.py 102-117: the Start AI Improvement Process button
start_improvement(reply, connected) ==
    /\ session_state.app_state = "analysis_done"
    /\ LET payload == [analysis_results |-> session_state.analysis_results]
           response == post("/start-chat", payload, connected,
                            start_chat_endpoint(payload, reply))
       IN  /\ http' = response
           /\ session_state' =
                  IF response.status_code # 200 THEN session_state
                  ELSE assign([app_state |-> "chat_mode",
                               messages |-> <<message("assistant",
                                                      response.data.first_ai_message)>>])
    /\ UNCHANGED <<client, resolved_turns, parser_vars>>

\* completion tested with > in place of ==
is_complete_beyond_total ==
    session_state.weaknesses_covered > session_state.total_weaknesses

\* a counter that advances on every reply, resolved or not
count_every_reply(weaknesses_covered, weakness_resolved) == weaknesses_covered + 1

\* completion tested one weakness too early
is_complete_one_short ==
    session_state.weaknesses_covered >= session_state.total_weaknesses - 1

\* app.py 131
is_complete == session_state.weaknesses_covered = session_state.total_weaknesses

\* a resolved reply counted as two weaknesses
count_resolved_twice(weaknesses_covered, weakness_resolved) ==
    IF weakness_resolved THEN weaknesses_covered + 2 ELSE weaknesses_covered

\* a counter that no reply advances
count_resolved_never(weaknesses_covered, weakness_resolved) == weaknesses_covered

\* weaknesses_covered after a reply (app.py 150-151)
count_resolved(weaknesses_covered, weakness_resolved) ==
    IF weakness_resolved THEN weaknesses_covered + 1 ELSE weaknesses_covered

\* the user's text put in place of the history
with_user_message_replacing(messages, prompt_text) == <<message("user", prompt_text)>>

\* the user's text put in front of the history
with_user_message_prepending(messages, prompt_text) ==
    <<message("user", prompt_text)>> \o messages

\* the user's text appended under the assistant's role
with_user_message_as_assistant(messages, prompt_text) ==
    Append(messages, message("assistant", prompt_text))

\* messages once the user's text is appended (app.py 135)
with_user_message(messages, prompt_text) == Append(messages, message("user", prompt_text))

\* app.py 134-157 and 199-201: the user answers in the chat
send_chat_message(prompt_text, today, reply, connected) ==
    /\ session_state.app_state = "chat_mode"
    /\ ~is_complete
    /\ Len(session_state.messages) + 2 <= MaxMessages
    /\ LET sent == with_user_message(session_state.messages, prompt_text)
           payload == [resume_text |-> session_state.resume_text,
                       analysis_results |-> session_state.analysis_results,
                       messages |-> sent, jd_text |-> session_state.jd_text]
           response == post("/chat", payload, connected,
                            chat_response(payload, today, reply))
       IN  /\ http' = response
           /\ session_state' =
                  IF response.status_code # 200 THEN assign([messages |-> sent])
                  ELSE assign([weaknesses_covered |->
                                   count_resolved(session_state.weaknesses_covered,
                                                  response.data.weakness_resolved),
                               messages |-> Append(sent, message("assistant",
                                                         response.data.ai_response))])
           /\ resolved_turns' =
                  IF response.status_code = 200 /\ response.data.weakness_resolved
                  THEN resolved_turns + 1 ELSE resolved_turns
    /\ UNCHANGED <<client, parser_vars>>

\* a generation that sends no job description, whatever the session holds
generate_final_resume_default_jd(selected_template_key, reply, renders, connected) ==
    /\ session_state.app_state = "chat_mode"
    /\ is_complete
    /\ LET payload == [resume_text |-> session_state.resume_text,
                       messages |-> session_state.messages,
                       template_name |-> selected_template_key,
                       jd_text |-> DEFAULT_JD]
           response == post("/generate-resume", payload, connected,
                            generate_resume_endpoint(payload, reply, renders))
       IN  /\ http' = response
           /\ session_state' =
                  IF response.status_code # 200 THEN session_state
                  ELSE assign([final_pdf_bytes |-> response.data.content,
                               final_pdf_name |-> "improved_resume_"
                                                    \o selected_template_key \o ".pdf"])
    /\ UNCHANGED <<client, resolved_turns, parser_vars>>

\* app.py 159-187: the Generate Final Resume PDF button
generate_final_resume(selected_template_key, reply, renders, connected) ==
    /\ session_state.app_state = "chat_mode"
    /\ is_complete
    /\ LET payload == [resume_text |-> session_state.resume_text,
                       messages |-> session_state.messages,
                       template_name |-> selected_template_key,
                       jd_text |-> session_state.jd_text]
           response == post("/generate-resume", payload, connected,
                            generate_resume_endpoint(payload, reply, renders))
       IN  /\ http' = response
           /\ session_state' =
                  IF response.status_code # 200 THEN session_state
                  ELSE assign([final_pdf_bytes |-> response.data.content,
                               final_pdf_name |-> "improved_resume_"
                                                    \o selected_template_key \o ".pdf"])
    /\ UNCHANGED <<client, resolved_turns, parser_vars>>

\* longest interview history the model follows
MaxBuildMessages == 5

\* app copy 3.py 307-324: the Build a New Resume button
start_build_chat(connected) ==
    /\ client = "app_copy_3"
    /\ session_state.app_state = "welcome"
    /\ LET payload == [jd_text |-> session_state.jd_text, messages |-> <<>>]
           response == post("/start-build-chat", payload, connected,
                            start_build_chat_endpoint(payload))
       IN  /\ http' = response
           /\ session_state' =
                  IF response.status_code # 200 THEN session_state
                  ELSE assign([build_messages |-> <<message("assistant",
                                                            response.data.first_ai_message)>>,
                               app_state |-> "build_chat"])
    /\ UNCHANGED <<client, resolved_turns, parser_vars>>

\* the finish offered after the first reply, whatever it said
build_is_complete_after_reply == Len(session_state.build_messages) >= 3

\* st.session_state.get("build_is_complete", False)
build_is_complete ==
    "build_is_complete" \in DOMAIN session_state /\ session_state.build_is_complete

\* app copy 3.py 526-570: the user answers in the interview
send_build_message(prompt_text, reply, connected) ==
    /\ client = "app_copy_3"
    /\ session_state.app_state = "build_chat"
    /\ ~build_is_complete
    /\ Len(session_state.build_messages) + 2 <= MaxBuildMessages
    /\ LET sent == with_user_message(session_state.build_messages, prompt_text)
           payload == [messages |-> sent, jd_text |-> session_state.jd_text]
           response == post("/build-chat", payload, connected,
                            build_chat_response(payload, reply))
           replied == Append(sent, message("assistant", response.data.ai_response))
       IN  /\ http' = response
           /\ session_state' =
                  IF response.status_code # 200 THEN assign([build_messages |-> sent])
                  ELSE IF response.data.build_complete
                  THEN assign([build_messages |-> replied, build_is_complete |-> TRUE])
                  ELSE assign([build_messages |-> replied])
    /\ UNCHANGED <<client, resolved_turns, parser_vars>>

\* app copy 3.py 574-600: the Finish & Analyze My New Resume button
finish_build(today, synthesis, reply, connected) ==
    /\ client = "app_copy_3"
    /\ session_state.app_state = "build_chat"
    /\ build_is_complete
    /\ LET payload == [messages |-> session_state.build_messages,
                       jd_text |-> session_state.jd_text]
           response == post("/synthesize-and-analyze", payload, connected,
                            synthesize_and_analyze_endpoint(payload, today, synthesis, reply))
       IN  /\ http' = response
           /\ session_state' =
                  IF response.status_code # 200 THEN session_state
                  ELSE assign(store_analysis(response.data))
           /\ resolved_turns' = IF response.status_code = 200 THEN 0 ELSE resolved_turns
    /\ UNCHANGED <<client, parser_vars>>

(***************************************************************************)
(* The session                                                             *)
(***************************************************************************)

Init ==
    /\ client \in {"app", "app_copy_3"}
    /\ session_state = first_run(client)
    /\ http = NO_REQUEST
    /\ resolved_turns = 0
    /\ p_pc = "input"
    /\ p_frags = <<>>
    /\ p_jd = DEFAULT_JD
    /\ p_result = [none |-> TRUE]

Next ==
    \/ clear_session
    \/ \E jd_input \in JD_INPUTS : edit_job_description(jd_input)
    \/ improve_existing_resume
    \/ \E file \in UPLOADS, jd_input \in JD_INPUTS, today \in DATES,
          reply \in engine_replies(ANALYSIS_TEXTS), connected \in BOOLEAN :
           analyze_resume(file, jd_input, today, reply, connected)
    \/ \E reply \in engine_replies(START_CHAT_TEXTS), connected \in BOOLEAN :
           start_improvement(reply, connected)
    \/ \E prompt_text \in USER_TEXTS, today \in DATES,
          reply \in engine_replies(CHAT_TEXTS), connected \in BOOLEAN :
           send_chat_message(prompt_text, today, reply, connected)
    \/ \E selected_template_key \in TEMPLATE_OPTIONS,
          reply \in engine_replies(FINAL_RESUME_TEXTS), renders \in BOOLEAN,
          connected \in BOOLEAN :
           generate_final_resume(selected_template_key, reply, renders, connected)
    \/ \E connected \in BOOLEAN : start_build_chat(connected)
    \/ \E prompt_text \in BUILD_USER_TEXTS, reply \in engine_replies(BUILD_TEXTS),
          connected \in BOOLEAN :
           send_build_message(prompt_text, reply, connected)
    \/ \E today \in DATES, synthesis \in engine_replies(SYNTHESIS_TEXTS),
          reply \in engine_replies(ANALYSIS_TEXTS), connected \in BOOLEAN :
           finish_build(today, synthesis, reply, connected)

Spec == Init /\ [][Next]_vars

(***************************************************************************)
(* The session when every request succeeds: the backend is reachable and   *)
(* the engine answers each prompt.  The user in the chat keeps answering,  *)
(* and the engine keeps, in the end, resolving a weakness: weak fairness   *)
(* on the chat turn whose reply carries the marker.  A reply without the   *)
(* marker is followed only while the history bound leaves room for the     *)
(* turns that resolve what is still open.  The fairness condition names    *)
(* the resolving turn by its effect on resolved_turns, which keeps its     *)
(* enabling condition a test of the session state.                         *)
(***************************************************************************)

engine_answers(texts) == {[ok |-> TRUE, text |-> t] : t \in texts}

\* weaknesses still to be covered in the chat
open_weaknesses == session_state.total_weaknesses - session_state.weaknesses_covered

room_after_unresolved_reply ==
    Len(session_state.messages) + 2 + 2 * open_weaknesses <= MaxMessages

\* a chat turn the engine answers with the marker
resolved_turn ==
    \E prompt_text \in USER_TEXTS, today \in DATES, reply \in engine_answers(CHAT_TEXTS) :
        /\ contains(reply.text, WEAKNESS_RESOLVED)
        /\ send_chat_message(prompt_text, today, reply, TRUE)

\* a chat turn the engine answers without it
unresolved_turn ==
    \E prompt_text \in USER_TEXTS, today \in DATES, reply \in engine_answers(CHAT_TEXTS) :
        /\ ~contains(reply.text, WEAKNESS_RESOLVED)
        /\ session_state.app_state = "chat_mode"
        /\ room_after_unresolved_reply
        /\ send_chat_message(prompt_text, today, reply, TRUE)

NextLive ==
    \/ clear_session
    \/ \E jd_input \in JD_INPUTS : edit_job_description(jd_input)
    \/ improve_existing_resume
    \/ \E file \in UPLOADS, jd_input \in JD_INPUTS, today \in DATES,
          reply \in engine_answers(ANALYSIS_TEXTS) :
           analyze_resume(file, jd_input, today, reply, TRUE)
    \/ \E reply \in engine_answers(START_CHAT_TEXTS) : start_improvement(reply, TRUE)
    \/ resolved_turn
    \/ unresolved_turn
    \/ \E selected_template_key \in TEMPLATE_OPTIONS,
          reply \in engine_answers(FINAL_RESUME_TEXTS) :
           generate_final_resume(selected_template_key, reply, TRUE, TRUE)
    \/ start_build_chat(TRUE)
    \/ \E prompt_text \in BUILD_USER_TEXTS, reply \in engine_answers(BUILD_TEXTS) :
           send_build_message(prompt_text, reply, TRUE)
    \/ \E today \in DATES, synthesis \in engine_answers(SYNTHESIS_TEXTS),
          reply \in engine_answers(ANALYSIS_TEXTS) :
           finish_build(today, synthesis, reply, TRUE)

\* the chat takes another turn (app.py 198-201)
chat_open ==
    /\ session_state.app_state = "chat_mode"
    /\ ~is_complete
    /\ Len(session_state.messages) + 2 <= MaxMessages

\* the step of resolved_turn, told by the history variable it alone advances
resolution == chat_open /\ resolved_turns' = resolved_turns + 1

SpecLive == Init /\ [][NextLive]_vars /\ WF_resolved_turns(resolution)

(***************************************************************************)
(* The parsers on their own: the engine's text is any concatenation of up  *)
(* to MaxFragments pieces, and one parser is applied to it                 *)
(***************************************************************************)

MaxFragments == 3

SCORE_LINES == {"ATS Score: 87\n", "ats score: 150\n"}

COUNT_LINES == {"Total Weaknesses: 3\n", "total weaknesses: 0\n"}

HEADER_AND_LIST == "Weaknesses:\n1. Weak verbs\n"

NONE_WORDS == {"None\n"}

BLANKS == {" \n"}

ANALYSIS_FRAGMENTS ==
    SCORE_LINES \cup COUNT_LINES \cup NONE_WORDS \cup BLANKS
        \cup {HEADER_AND_LIST, "Solid resume.\n"}

SPEC_EXAMPLE_REPLY == "Great job! [WEAKNESS_RESOLVED]\nNext step..."

CHAT_FRAGMENTS ==
    {"Great job!", " ", "\n", WEAKNESS_RESOLVED, "[WEAKNESS_", "RESOLVED]", SPEC_EXAMPLE_REPLY}

BUILD_FRAGMENTS ==
    {"What is your email?", " ", "\n", BUILD_COMPLETE, "[BUILD_", "COMPLETE]"}

texts_of(fragments) == UNION {[1..n -> fragments] : n \in 0..MaxFragments}

RECURSIVE join(_)
join(frags) == IF frags = <<>> THEN "" ELSE Head(frags) \o join(Tail(frags))

\* response.text
p_text == join(p_frags)

InitParse ==
    /\ client = "app"
    /\ session_state = first_run("app")
    /\ http = NO_REQUEST
    /\ resolved_turns = 0
    /\ p_pc = "input"
    /\ p_frags \in texts_of(ANALYSIS_FRAGMENTS) \cup texts_of(CHAT_FRAGMENTS)
                       \cup texts_of(BUILD_FRAGMENTS)
    /\ p_jd \in {DEFAULT_JD, "Python developer"}
    /\ p_result = [none |-> TRUE]

apply_run_analysis ==
    /\ p_pc = "input"
    /\ p_frags \in texts_of(ANALYSIS_FRAGMENTS)
    /\ p_pc' = "run_analysis"
    /\ p_result' = run_analysis(p_text, p_jd)
    /\ UNCHANGED <<session_vars, p_frags, p_jd>>

apply_chat_endpoint ==
    /\ p_pc = "input"
    /\ p_frags \in texts_of(CHAT_FRAGMENTS)
    /\ p_pc' = "chat_endpoint"
    /\ p_result' = chat_endpoint(p_text)
    /\ UNCHANGED <<session_vars, p_frags, p_jd>>

apply_build_chat_endpoint ==
    /\ p_pc = "input"
    /\ p_frags \in texts_of(BUILD_FRAGMENTS)
    /\ p_pc' = "build_chat_endpoint"
    /\ p_result' = build_chat_endpoint(p_text)
    /\ UNCHANGED <<session_vars, p_frags, p_jd>>

NextParse == apply_run_analysis \/ apply_chat_endpoint \/ apply_build_chat_endpoint

SpecParse == InitParse /\ [][NextParse]_vars

(***************************************************************************)
(* The normalisation on its own: the engine's resume text is any sequence  *)
(* of up to MaxChars code points (p_frags holds them), normalised once and *)
(* then once more                                                          *)
(***************************************************************************)

MaxChars == 3

\* "-", "J", e acute (Latin-1), en dash, em dash, right single quote,
\* left double quote, bullet, CJK "day"
CODE_POINTS == {45, 74, 233, 8211, 8212, 8217, 8220, 8226, 26085}

InitNormalize ==
    /\ client = "app"
    /\ session_state = first_run("app")
    /\ http = NO_REQUEST
    /\ resolved_turns = 0
    /\ p_pc = "input"
    /\ p_frags \in UNION {[1..n -> CODE_POINTS] : n \in 0..MaxChars}
    /\ p_jd = DEFAULT_JD
    /\ p_result = [none |-> TRUE]

apply_safe_text ==
    /\ p_pc = "input"
    /\ p_pc' = "safe_text"
    /\ p_result' = [safe_text |-> safe_text(p_frags)]
    /\ UNCHANGED <<session_vars, p_frags, p_jd>>

apply_safe_text_again ==
    /\ p_pc = "safe_text"
    /\ p_pc' = "safe_text_again"
    /\ p_result' = [safe_text |-> safe_text(p_result.safe_text), once |-> p_result.safe_text]
    /\ UNCHANGED <<session_vars, p_frags, p_jd>>

NextNormalize == apply_safe_text \/ apply_safe_text_again

SpecNormalize == InitNormalize /\ [][NextNormalize]_vars

(***************************************************************************)
(* The document endpoint on its own: /generate-resume called with any      *)
(* request, among them template names the clients do not offer (p_frags    *)
(* holds the request, p_result the response)                               *)
(***************************************************************************)

\* the three names of TEMPLATES, and names that are not keys of it
TEMPLATE_NAMES == TEMPLATE_OPTIONS \cup {"fancy", "Classic", ""}

GENERATE_REQUESTS ==
    [resume_text   : {RESUME, "Jane Doe"},
     messages      : {<<>>, <<message("assistant", "Hi!"), message("user", "I led a team of 5.")>>},
     template_name : TEMPLATE_NAMES,
     jd_text       : {DEFAULT_JD, "Python developer"}]

InitGenerate ==
    /\ client = "app"
    /\ session_state = first_run("app")
    /\ http = NO_REQUEST
    /\ resolved_turns = 0
    /\ p_pc = "input"
    /\ p_frags \in GENERATE_REQUESTS
    /\ p_jd = DEFAULT_JD
    /\ p_result = [none |-> TRUE]

apply_generate_resume_endpoint ==
    /\ p_pc = "input"
    /\ p_pc' = "generated"
    /\ \E reply \in engine_replies(FINAL_RESUME_TEXTS), renders \in BOOLEAN :
           p_result' = generate_resume_endpoint(p_frags, reply, renders)
    /\ UNCHANGED <<session_vars, p_frags, p_jd>>

NextGenerate == apply_generate_resume_endpoint

SpecGenerate == InitGenerate /\ [][NextGenerate]_vars

(***************************************************************************)
(* Properties of the session (checked under Spec)                          *)
(***************************************************************************)

app_state == session_state.app_state

has_counters == "weaknesses_covered" \in DOMAIN session_state

\* C1: in every reachable session state 0 <= weaknesses_covered <= total_weaknesses
\* (the front end with a landing page has no counters before its first analysis).
C1_CoveredWithinTotal ==
    has_counters =>
        /\ 0 <= session_state.weaknesses_covered
        /\ session_state.weaknesses_covered <= session_state.total_weaknesses

\* a chat whose two weaknesses are both covered, after a resolved reply
C1_Witness ==
    /\ app_state = "chat_mode"
    /\ session_state.total_weaknesses = 2
    /\ session_state.weaknesses_covered = 2
    /\ http.endpoint = "/chat"
    /\ http.status_code = 200

\* C2: a chat turn whose request fails (engine error, non-200 response or
\* connection error) leaves the session as it was before the user submitted the
\* turn: weaknesses_covered is not incremented and messages is unchanged.
C2_FailedTurnLeavesSessionUnmodified ==
    [][(http'.endpoint = "/chat" /\ http'.status_code # 200)
           => /\ session_state'.weaknesses_covered = session_state.weaknesses_covered
              /\ session_state'.messages = session_state.messages]_vars

\* C3: in a guided chat weaknesses_covered is the number of replies that returned
\* resolved = true since the analysis: every successful turn adds exactly 1 when
\* the reply is resolved and 0 when it is not, so weaknesses_covered reaches
\* total_weaknesses = N exactly at the N-th resolved reply and never earlier.
C3_CountsResolvedReplies ==
    /\ [](app_state = "chat_mode" =>
              session_state.weaknesses_covered = resolved_turns)
    /\ [][(http'.endpoint = "/chat" /\ http'.status_code = 200)
              => session_state'.weaknesses_covered =
                     IF http'.data.weakness_resolved
                     THEN session_state.weaknesses_covered + 1
                     ELSE session_state.weaknesses_covered]_vars

\* the second of two weaknesses is resolved by the second reply of the chat
C3_Witness ==
    /\ app_state = "chat_mode"
    /\ session_state.total_weaknesses = 2
    /\ resolved_turns = 2
    /\ session_state.weaknesses_covered = 2
    /\ Len(session_state.messages) = 5

\* C7: every endpoint that has two prompt variants composes the general one
\* exactly when the request's job description is the sentinel, and the targeted
\* one for any other text; an analysis in general mode returns ats_score 0
\* whatever the engine wrote.
C7_ModeBranching ==
    /\ "variant" \in DOMAIN http.prompt =>
           /\ http.prompt.variant \in {"general", "targeted"}
           /\ http.prompt.variant = "general" <=> http.payload.jd_text = DEFAULT_JD
           /\ http.prompt.variant = "targeted" <=> http.payload.jd_text # DEFAULT_JD
    /\ (http.endpoint \in {"/analyze", "/synthesize-and-analyze"}
            /\ http.status_code = 200 /\ http.payload.jd_text = DEFAULT_JD)
           => http.data.ats_score = 0
    /\ (has_counters /\ session_state.jd_text = DEFAULT_JD) => session_state.ats_score = 0

\* a general-mode analysis of an engine text that carries "ATS Score: 87"
C7_Witness ==
    /\ http.endpoint = "/analyze"
    /\ http.status_code = 200
    /\ http.payload.jd_text = DEFAULT_JD
    /\ http.prompt.variant = "general"
    /\ contains(http.data.analysis_results, "Solid resume.")
    /\ session_state.ats_score = 0

(***************************************************************************)
(* Properties of the parsers (checked under SpecParse)                     *)
(***************************************************************************)

\* the fragments of frags that are not in drop
RECURSIVE without(_, _)
without(frags, drop) ==
    IF frags = <<>> THEN <<>>
    ELSE IF Head(frags) \in drop THEN without(Tail(frags), drop)
    ELSE <<Head(frags)>> \o without(Tail(frags), drop)

\* the index of the first fragment that is in wanted, 0 if there is none
first_index(frags, wanted) ==
    IF \A i \in 1..Len(frags) : frags[i] \notin wanted THEN 0
    ELSE CHOOSE i \in 1..Len(frags) :
             frags[i] \in wanted /\ \A j \in 1..(i - 1) : frags[j] \notin wanted

\* the number a score line or a count line carries
line_value(line) ==
    CASE line = "ATS Score: 87\n"        -> 87
      [] line = "ats score: 150\n"       -> 150
      [] line = "Total Weaknesses: 3\n"  -> 3
      [] line = "total weaknesses: 0\n"  -> 0

first_score == first_index(p_frags, SCORE_LINES)

first_count == first_index(p_frags, COUNT_LINES)

header_at == first_index(p_frags, {HEADER_AND_LIST})

before_header == IF header_at = 0 THEN p_frags ELSE SubSeq(p_frags, 1, header_at - 1)

from_header == IF header_at = 0 THEN <<>> ELSE SubSeq(p_frags, header_at, Len(p_frags))

\* the text before the header, score and count lines removed, trimmed
summary_prose == strip(join(without(before_header, SCORE_LINES \cup COUNT_LINES)))

\* the text from the header on, count lines removed, trimmed
list_text == strip(join(without(from_header, COUNT_LINES)))

degenerate_summary == summary_prose = "" \/ lower(summary_prose) = "none"

\* C4 as the specification states it: the marker and the whitespace around it
\* are removed, so the reply "Great job! [WEAKNESS_RESOLVED]\nNext step..."
\* is displayed as "Great job!\nNext step...".
C4_MarkerAndSurroundingWhitespaceRemoved ==
    (p_pc = "chat_endpoint" /\ p_text = SPEC_EXAMPLE_REPLY) =>
        /\ p_result.weakness_resolved
        /\ p_result.ai_response = "Great job!\nNext step..."

\* the reply a fragment leaves once its marker is taken out
unmarked(frag) ==
    IF frag = WEAKNESS_RESOLVED THEN ""
    ELSE IF frag = SPEC_EXAMPLE_REPLY THEN "Great job! \nNext step..."
    ELSE frag

RECURSIVE join_unmarked(_)
join_unmarked(frags) ==
    IF frags = <<>> THEN "" ELSE unmarked(Head(frags)) \o join_unmarked(Tail(frags))

whole_markers_only == \A i \in 1..Len(p_frags) : p_frags[i] \notin {"[WEAKNESS_", "RESOLVED]"}

\* C4 (amended): the marker is removed and only the two ends of the reply are
\* trimmed; whitespace that stood next to a marker inside the text stays. The
\* reply "Great job! [WEAKNESS_RESOLVED]\nNext step..." gives resolved = true and
\* the display text "Great job! \nNext step...".
C4_MarkerRemovedEndsTrimmed ==
    /\ (p_pc = "chat_endpoint" /\ p_text = SPEC_EXAMPLE_REPLY) =>
           /\ p_result.weakness_resolved
           /\ p_result.ai_response = "Great job! \nNext step..."
    /\ (p_pc = "chat_endpoint" /\ whole_markers_only) =>
           p_result.ai_response = strip(join_unmarked(p_frags))

\* the chat parser has been given the specification's example reply
C4_Witness ==
    /\ p_pc = "chat_endpoint"
    /\ p_text = SPEC_EXAMPLE_REPLY
    /\ p_result.weakness_resolved

\* C5: resolved (build_complete) is true exactly when the marker occurs in the
\* raw reply, and the display text contains no occurrence of the marker.
C5_FlagIffMarkerAndMarkerRemoved ==
    /\ p_pc = "chat_endpoint" =>
           /\ p_result.weakness_resolved <=> contains(p_text, WEAKNESS_RESOLVED)
           /\ ~contains(p_result.ai_response, WEAKNESS_RESOLVED)
    /\ p_pc = "build_chat_endpoint" =>
           /\ p_result.build_complete <=> contains(p_text, BUILD_COMPLETE)
           /\ ~contains(p_result.ai_response, BUILD_COMPLETE)

\* what the first count line of the text makes total_weaknesses, 1 without one
expected_total ==
    IF first_count = 0 THEN 1 ELSE Max(1, line_value(p_frags[first_count]))

\* C6 as the specification states it: the first "ATS Score: <n>" of the text is
\* the ats_score (0 without one) and the first "Total Weaknesses: <n>" is the
\* total_weaknesses (1 without one), whatever the mode of the request.
C6_ScoreAndCountExtracted ==
    p_pc = "run_analysis" =>
        /\ p_result.ats_score =
               IF first_score = 0 THEN 0 ELSE line_value(p_frags[first_score])
        /\ p_result.total_weaknesses = expected_total

\* C6 (amended): in targeted mode the first "ATS Score: <n>" of the text,
\* matched ignoring case, is the ats_score, and ats_score is 0 without one;
\* in general mode ats_score is 0. In both modes the first
\* "Total Weaknesses: <n>" is the total_weaknesses (at least 1), 1 without one.
C6_ScoreInTargetedModeAndCount ==
    p_pc = "run_analysis" =>
        /\ p_result.ats_score =
               IF p_jd = DEFAULT_JD \/ first_score = 0 THEN 0
               ELSE line_value(p_frags[first_score])
        /\ p_result.total_weaknesses = expected_total

\* a targeted analysis of a text with "ATS Score: 87" and "Total Weaknesses: 3"
C6_Witness ==
    /\ p_pc = "run_analysis"
    /\ p_jd # DEFAULT_JD
    /\ p_frags = <<"ATS Score: 87\n", "Solid resume.\n", "Total Weaknesses: 3\n">>
    /\ p_result.ats_score = 87
    /\ p_result.total_weaknesses = 3

\* C8: with a "Weaknesses:" header the display text is the summary (the text
\* before the header), a blank line and the list (the text from the header on,
\* count line removed); without a header, an occurrence inside a
\* "Total Weaknesses: <n>" line not counting as one, the whole text is the
\* summary, the list is empty and the count line is not displayed.
C8_SectionSplitting ==
    p_pc = "run_analysis" =>
        p_result.analysis_results =
            strip((IF degenerate_summary THEN SUMMARY_FALLBACK ELSE summary_prose)
                  \o "\n\n" \o list_text)

\* C9: when the text before the "Weaknesses:" header, score and count lines
\* removed, is empty, whitespace or "none" in any case, the display text starts
\* with the fallback sentence, followed by the list.
C9_SummaryFallback ==
    (p_pc = "run_analysis" /\ header_at # 0 /\ degenerate_summary) =>
        p_result.analysis_results = SUMMARY_FALLBACK \o "\n\n" \o list_text

\* C10: whatever the engine wrote, the analysis and the chat turn return a
\* non-empty display text, and the analysis valid counters.
C10_MalformedOutputNeverFatal ==
    /\ p_pc = "run_analysis" =>
           /\ p_result.analysis_results # ""
           /\ p_result.ats_score >= 0
           /\ p_result.total_weaknesses >= 1
    /\ p_pc = "chat_endpoint" => p_result.ai_response # ""

(***************************************************************************)
(* Properties of the session's data (checked under Spec)                   *)
(***************************************************************************)

\* C11: the session's ats_score is always an integer in 0..100, whatever the
\* engine wrote (for example "ATS Score: 150").
C11_ScoreWithinRange ==
    has_counters => session_state.ats_score \in 0..100

\* C12: in every reachable session state, the initial one and the one right
\* after a new-session reset included, total_weaknesses is at least 1.
C12_TotalAtLeastOne ==
    has_counters => session_state.total_weaknesses >= 1

\* C13: a submission whose extracted text has fewer than 50 characters is
\* rejected: no analysis prompt is composed for it, no analysis of it is
\* returned, and the session stays in the upload state.
C13_ShortTextRejected ==
    /\ (http.prompt.template = "analysis")
           => Len(http.prompt.resume_text) >= MIN_SYNTHESIZED_LENGTH
    /\ (http.endpoint \in {"/analyze", "/synthesize-and-analyze"} /\ http.status_code = 200)
           => Len(http.data.resume_text) >= MIN_SYNTHESIZED_LENGTH
    /\ (has_counters /\ app_state \notin {"home", "upload_mode", "welcome"})
           => Len(session_state.resume_text) >= MIN_SYNTHESIZED_LENGTH

(***************************************************************************)
(* Properties of the normalisation (checked under SpecNormalize)           *)
(***************************************************************************)

\* what the normalisation is to make of one character
normalized_char(c) ==
    IF c \in {8211, 8226} THEN <<45>>
    ELSE IF c = 8212 THEN <<45, 45>>
    ELSE IF c \in {8216, 8217} THEN <<39>>
    ELSE IF c \in {8220, 8221} THEN <<34>>
    ELSE IF c > 255 THEN <<63>>
    ELSE <<c>>

RECURSIVE normalized(_)
normalized(text) ==
    IF text = <<>> THEN <<>> ELSE normalized_char(Head(text)) \o normalized(Tail(text))

in_latin_1(text) == \A i \in 1..Len(text) : text[i] \in 0..255

\* C14: the text handed to the PDF renderer has only Latin-1 characters: dashes,
\* curly quotes and bullets become their ASCII replacements, every other
\* unsupported character becomes the placeholder "?", and every input has a result.
C14_SafeTextIsLatin1 ==
    p_pc = "safe_text" =>
        /\ in_latin_1(p_result.safe_text)
        /\ p_result.safe_text = normalized(p_frags)

\* an em dash, a bullet and a CJK character have been normalised
C14_Witness ==
    /\ p_pc = "safe_text"
    /\ p_frags = <<8212, 8226, 26085>>
    /\ p_result.safe_text = <<45, 45, 45, 63>>

\* C15: the normalisation leaves a text of Latin-1 characters as it is, and
\* normalising a second time changes nothing.
C15_NoOpOnLatin1AndIdempotent ==
    /\ (p_pc = "safe_text" /\ in_latin_1(p_frags)) => p_result.safe_text = p_frags
    /\ p_pc = "safe_text_again" => p_result.safe_text = p_result.once

\* a text with a hyphen, an en dash and a CJK character, normalised twice
C15_Witness ==
    /\ p_pc = "safe_text_again"
    /\ p_frags = <<45, 8211, 26085>>
    /\ p_result.once = <<45, 45, 63>>
    /\ p_result.safe_text = <<45, 45, 63>>

(***************************************************************************)
(* Properties of document generation (checked under Spec)                  *)
(***************************************************************************)

\* the document a session state holds, NONE when it holds none
document_of(state) ==
    IF "final_pdf_bytes" \in DOMAIN state THEN state.final_pdf_bytes ELSE NONE

\* the script run posted a generate request that reached the backend
generate_requested(request) ==
    request.endpoint = "/generate-resume" /\ request.status_code # 0

\* C16: the synthesis prompt of generate_document is made of the request's
\* resume text, chat history, job description and template and of nothing else
\* (no date, nothing of earlier calls), so two calls with the same four inputs
\* send the same prompt.
C16_SynthesisPromptDeterministic ==
    /\ [](generate_requested(http) =>
              /\ http.prompt.template = "synthesis"
              /\ http.prompt.resume_text = http.payload.resume_text
              /\ http.prompt.messages = http.payload.messages
              /\ http.prompt.template_str = http.payload.template_name
              /\ IF http.payload.jd_text = DEFAULT_JD
                 THEN DOMAIN http.prompt = {"template", "variant", "template_str",
                                            "resume_text", "messages"}
                 ELSE /\ DOMAIN http.prompt = {"template", "variant", "template_str",
                                               "resume_text", "messages", "jd_text"}
                      /\ http.prompt.jd_text = http.payload.jd_text)
    /\ [][(generate_requested(http) /\ generate_requested(http')
               /\ http'.payload = http.payload)
              => http'.prompt = http.prompt]_vars

\* a second generation with the template of the stored document, whose engine
\* call failed
C16_Witness ==
    /\ generate_requested(http)
    /\ http.status_code = 500
    /\ document_of(session_state) # NONE
    /\ session_state.final_pdf_name = "improved_resume_" \o http.payload.template_name \o ".pdf"

\* C17: a generation whose engine call or rendering fails returns an error and
\* no document and leaves the session, a document stored earlier included, as
\* it was; the stored document only ever changes to the body of a successful
\* response, which is a whole document.
C17_FailedGenerationKeepsDocument ==
    /\ [](document_of(session_state) # NONE =>
              /\ Len(document_of(session_state)) >= 4
              /\ SubSeq(document_of(session_state), 1, 4) = <<37, 80, 68, 70>>)
    /\ [][(http'.endpoint = "/generate-resume" /\ http'.status_code # 200)
              => /\ session_state' = session_state
                 /\ "content" \notin DOMAIN http'.data]_vars
    /\ [][(document_of(session_state') # document_of(session_state)
               /\ document_of(session_state') # NONE)
              => /\ http'.endpoint = "/generate-resume"
                 /\ http'.status_code = 200
                 /\ document_of(session_state') = http'.data.content]_vars

\* a failed generation with the modern template after a successful classic one
C17_Witness ==
    /\ http.endpoint = "/generate-resume"
    /\ http.status_code = 500
    /\ http.payload.template_name = "modern"
    /\ document_of(session_state) = pdf_bytes(<<74, 8211, 8226, 26085>>)
    /\ session_state.final_pdf_name = "improved_resume_classic.pdf"

\* the session state without the stored document and its file name
without_document(state) ==
    [k \in DOMAIN state \ {"final_pdf_bytes", "final_pdf_name"} |-> state[k]]

\* C18: a document is generated only when weaknesses_covered = total_weaknesses,
\* and a generation, successful or not, with any template, changes nothing of
\* the session but the stored document and its file name, so that it can be
\* repeated.
C18_GenerationOnlyWhenCompleteAndFrame ==
    [][(http'.endpoint = "/generate-resume")
           => /\ app_state = "chat_mode"
              /\ session_state.weaknesses_covered = session_state.total_weaknesses
              /\ without_document(session_state') = without_document(session_state)
              /\ session_state'.app_state = "chat_mode"
              /\ session_state'.weaknesses_covered = session_state'.total_weaknesses
              /\ http'.status_code = 200 =>
                     /\ session_state'.final_pdf_bytes = http'.data.content
                     /\ session_state'.final_pdf_name = http'.data.filename]_vars

\* a successful generation with the skills_first template,
\* in a chat that covered its two weaknesses
C18_Witness ==
    /\ http.endpoint = "/generate-resume"
    /\ http.status_code = 200
    /\ http.payload.template_name = "skills_first"
    /\ session_state.final_pdf_name = "improved_resume_skills_first.pdf"
    /\ app_state = "chat_mode"
    /\ session_state.weaknesses_covered = 2
    /\ session_state.total_weaknesses = 2
    /\ Len(session_state.messages) = 5

\* C19: no transition skips a state: chat_mode is entered only from
\* analysis_done (by a successful start of the chat), analysis_done only by a
\* successful analysis from the upload state or a successful finish from the
\* interview, and a document is stored only from a chat that covered every
\* weakness.
C19_NoStateSkipped ==
    /\ [][(session_state'.app_state = "chat_mode" /\ app_state # "chat_mode")
              => /\ app_state = "analysis_done"
                 /\ http'.endpoint = "/start-chat"
                 /\ http'.status_code = 200]_vars
    /\ [][(session_state'.app_state = "analysis_done" /\ app_state # "analysis_done")
              => \/ /\ app_state \in {"home", "upload_mode"}
                    /\ http'.endpoint = "/analyze"
                    /\ http'.status_code = 200
                 \/ /\ app_state = "build_chat"
                    /\ http'.endpoint = "/synthesize-and-analyze"
                    /\ http'.status_code = 200]_vars
    /\ [][(document_of(session_state') # document_of(session_state)
               /\ document_of(session_state') # NONE)
              => /\ app_state = "chat_mode"
                 /\ session_state.weaknesses_covered = session_state.total_weaknesses]_vars

\* the analysis review entered from the interview
C19_Witness ==
    /\ app_state = "analysis_done"
    /\ http.endpoint = "/synthesize-and-analyze"
    /\ http.status_code = 200
    /\ session_state.total_weaknesses = 2

\* C20: a successful submit moves the session from the upload state to the
\* analysis review, stores the total_weaknesses (at least 1) and the ats_score
\* of the response, and sets weaknesses_covered to 0 and the document to none;
\* an unsuccessful one changes nothing of the session.
C20_SubmitEffects ==
    [][(http'.endpoint = "/analyze")
           => IF http'.status_code = 200
              THEN /\ app_state \in {"home", "upload_mode"}
                   /\ session_state'.app_state = "analysis_done"
                   /\ session_state'.total_weaknesses = http'.data.total_weaknesses
                   /\ session_state'.total_weaknesses >= 1
                   /\ session_state'.ats_score = http'.data.ats_score
                   /\ session_state'.weaknesses_covered = 0
                   /\ session_state'.final_pdf_bytes = NONE
              ELSE session_state' = session_state]_vars

\* a successful targeted submit: two weaknesses, score 87, nothing covered
C20_Witness ==
    /\ http.endpoint = "/analyze"
    /\ http.status_code = 200
    /\ app_state = "analysis_done"
    /\ session_state.total_weaknesses = 2
    /\ session_state.ats_score = 87
    /\ session_state.weaknesses_covered = 0
    /\ session_state.final_pdf_bytes = NONE

(***************************************************************************)
(* Properties of the transitions (checked under Spec)                      *)
(***************************************************************************)

\* the opening messages the engine can write, a blank one replaced by the
\* endpoint's fixed opening (main.py 409-410)
OPENING_MESSAGES ==
    {IF strip(t) = "" THEN START_CHAT_FALLBACK ELSE t : t \in START_CHAT_TEXTS}

\* C21: the session goes from analysis review to the guided chat only by the
\* start action with a successful start-chat reply, and it enters the chat with
\* exactly one message, of role assistant, holding the opening message of the
\* reply, whatever messages held before.
C21_ChatEntrySeedsOneAssistantMessage ==
    /\ [][(app_state = "analysis_done" /\ session_state'.app_state # "analysis_done"
               /\ session_state'.app_state \notin {"home", "welcome"})
              => /\ session_state'.app_state = "chat_mode"
                 /\ http'.endpoint = "/start-chat"
                 /\ http'.status_code = 200]_vars
    /\ [][(app_state # "chat_mode" /\ session_state'.app_state = "chat_mode")
              => /\ session_state'.messages =
                        <<[role |-> "assistant", content |-> http'.data.first_ai_message]>>
                 /\ http'.data.first_ai_message \in OPENING_MESSAGES
                 /\ http'.prompt.analysis_results = session_state.analysis_results]_vars
    /\ [][(http'.endpoint = "/start-chat" /\ http'.status_code # 200)
              => session_state' = session_state]_vars

\* the chat entered with the engine's opening message as its only message
C21_Witness ==
    /\ app_state = "chat_mode"
    /\ http.endpoint = "/start-chat"
    /\ http.status_code = 200
    /\ session_state.messages =
           <<[role |-> "assistant", content |-> "Hi! First: weak verbs. What did you build?"]>>

\* the job description a session state holds
jd_text_of(state) == IF "jd_text" \in DOMAIN state THEN state.jd_text ELSE ""

\* C22: from any state the new-session action leads to the initial state (home,
\* or welcome in the front end with a landing page): messages and
\* build_messages empty, counters, analysis, resume text, completion flag and
\* stored document cleared; only the job description may survive, and only in
\* the front end with a landing page when the reset is not made on that page.
C22_NewSessionResetsEverything ==
    /\ [][clear_session
              => /\ [session_state' EXCEPT !.jd_text = ""]
                        = [first_run(client) EXCEPT !.jd_text = ""]
                 /\ session_state'.jd_text \in
                        IF client = "app" THEN {""}
                        ELSE IF app_state = "welcome" THEN {DEFAULT_JD}
                        ELSE {DEFAULT_JD, session_state.jd_text}
                 /\ resolved_turns' = 0]_vars
    /\ [](ENABLED clear_session)

\* the landing page as a new session started on a later page leaves it: the
\* job description is all that is kept
C22_Witness ==
    /\ client = "app_copy_3"
    /\ app_state = "welcome"
    /\ session_state.jd_text = "Python developer"
    /\ DOMAIN session_state = {"app_state", "jd_text", "messages", "build_messages"}
    /\ session_state.messages = <<>>
    /\ session_state.build_messages = <<>>

\* the completion flag a session state holds
build_flag_of(state) ==
    "build_is_complete" \in DOMAIN state /\ state.build_is_complete

\* C23: the interview's finish is taken only after an interview turn returned
\* the completion flag, and a successful one stores the resume text, analysis,
\* ats_score and total_weaknesses (at least 1) of the response, weaknesses_covered
\* 0 and no document, and enters the analysis review, as a successful upload does.
C23_FinishOnlyAfterCompletion ==
    /\ [][(build_flag_of(session_state') /\ ~build_flag_of(session_state))
              => /\ http'.endpoint = "/build-chat"
                 /\ http'.status_code = 200
                 /\ http'.data.build_complete]_vars
    /\ [][(http'.endpoint = "/synthesize-and-analyze")
              => /\ app_state = "build_chat"
                 /\ build_flag_of(session_state)
                 /\ http'.payload.messages = session_state.build_messages
                 /\ IF http'.status_code = 200
                    THEN /\ session_state'.app_state = "analysis_done"
                         /\ session_state'.resume_text = http'.data.resume_text
                         /\ http'.prompt.resume_text = http'.data.resume_text
                         /\ session_state'.analysis_results = http'.data.analysis_results
                         /\ session_state'.ats_score = http'.data.ats_score
                         /\ session_state'.total_weaknesses = http'.data.total_weaknesses
                         /\ session_state'.total_weaknesses >= 1
                         /\ session_state'.weaknesses_covered = 0
                         /\ session_state'.final_pdf_bytes = NONE
                    ELSE session_state' = session_state]_vars

\* the analysis review entered by a finish, with the interview's history kept
C23_Witness ==
    /\ http.endpoint = "/synthesize-and-analyze"
    /\ http.status_code = 200
    /\ app_state = "analysis_done"
    /\ build_flag_of(session_state)
    /\ session_state.resume_text = RESUME
    /\ session_state.weaknesses_covered = 0

\* s is t or the beginning of t
is_prefix(s, t) == Len(s) <= Len(t) /\ SubSeq(t, 1, Len(s)) = s

\* C24: within a guided chat messages is append-only: every step of the chat
\* leaves the history it found as the beginning of the history it leaves.
C24_MessagesAppendOnly ==
    [][(app_state = "chat_mode" /\ session_state'.app_state = "chat_mode")
           => is_prefix(session_state.messages, session_state'.messages)]_vars

\* a chat in which a failed turn was followed by an answered one
C24_Witness ==
    /\ app_state = "chat_mode"
    /\ Len(session_state.messages) = 4
    /\ session_state.messages[2].role = "user"
    /\ session_state.messages[3].role = "user"
    /\ session_state.messages[4].role = "assistant"

\* the history a session state holds under key, empty when it holds none
history_of(state, key) == IF key \in DOMAIN state THEN state[key] ELSE <<>>

\* the session state without its two histories
without_histories(state) ==
    [k \in DOMAIN state \ {"messages", "build_messages"} |-> state[k]]

\* C25: after a failed operation (analysis, start of the chat, chat turn,
\* interview turn, finish, generation) the session has the same app_state,
\* analysis, resume text, counters and flags as before and every message
\* recorded before, in order; the operation's conditions, which read only
\* those fields, hold as before, so it can be retried.
C25_FailurePermitsRetry ==
    [][(http'.endpoint # "none" /\ http'.status_code # 200)
           => /\ session_state'.app_state = app_state
              /\ without_histories(session_state') = without_histories(session_state)
              /\ is_prefix(history_of(session_state, "messages"),
                           history_of(session_state', "messages"))
              /\ is_prefix(history_of(session_state, "build_messages"),
                           history_of(session_state', "build_messages"))]_vars

\* a chat turn that failed in a chat with one weakness covered of two
C25_Witness ==
    /\ http.endpoint = "/chat"
    /\ http.status_code = 500
    /\ app_state = "chat_mode"
    /\ session_state.weaknesses_covered = 1
    /\ session_state.total_weaknesses = 2
    /\ session_state.messages[Len(session_state.messages)].role = "user"

\* the extraction of the file fails: unsupported type, unreadable, or no text
extraction_fails(file) ==
    \/ file.kind \notin {"txt", "pdf"}
    \/ ~file.readable
    \/ file.text = ""

\* C26: when the text extraction fails the error is returned before any engine
\* call is made and no session field is changed: the session stays in the
\* upload state.
C26_ExtractionFailureChangesNothing ==
    [][\A file \in UPLOADS, jd_input \in JD_INPUTS, today \in DATES,
          reply \in engine_replies(ANALYSIS_TEXTS) :
           (extraction_fails(file) /\ analyze_resume(file, jd_input, today, reply, TRUE))
               => /\ http'.status_code \in {400, 500}
                  /\ http'.prompt = NO_PROMPT
                  /\ session_state' = session_state
                  /\ session_state'.app_state \in {"home", "upload_mode"}]_vars

\* a file without text was rejected on the upload page
C26_Witness ==
    /\ http.endpoint = "/analyze"
    /\ http.status_code = 400
    /\ http.data.detail = "Could not extract text from file."
    /\ http.prompt = NO_PROMPT
    /\ app_state \in {"home", "upload_mode"}

(***************************************************************************)
(* The server keeps nothing between requests (checked under Spec)          *)
(***************************************************************************)

\* the fields of a prompt, given the job description of the request
prompt_fields(jd_text, general, targeted) == IF jd_text = DEFAULT_JD THEN general ELSE targeted

without_interview(state) ==
    [k \in DOMAIN state \ {"build_messages", "build_is_complete"} |-> state[k]]

\* C28: an interview turn appends the user's message and the assistant's reply
\* to build_messages and touches nothing else but the completion flag; the flag
\* is raised exactly by a reply that carried [BUILD_COMPLETE], stays raised as
\* long as the interview lasts, and once it is raised no turn is sent.
C28_InterviewTurns ==
    /\ [][(http'.endpoint = "/build-chat")
              => /\ app_state = "build_chat"
                 /\ ~build_flag_of(session_state)
                 /\ without_interview(session_state') = without_interview(session_state)
                 /\ Len(http'.payload.messages) = Len(session_state.build_messages) + 1
                 /\ http'.payload.messages[Len(http'.payload.messages)].role = "user"
                 /\ IF http'.status_code = 200
                    THEN /\ session_state'.build_messages =
                                Append(http'.payload.messages,
                                       [role |-> "assistant",
                                        content |-> http'.data.ai_response])
                         /\ build_flag_of(session_state') <=> http'.data.build_complete
                         /\ http'.data.build_complete <=>
                                \E t \in BUILD_TEXTS :
                                    /\ contains(t, BUILD_COMPLETE)
                                    /\ http'.data.ai_response
                                           = strip(replace(t, BUILD_COMPLETE, ""))
                    ELSE ~build_flag_of(session_state')]_vars
    /\ [][(build_flag_of(session_state) /\ session_state'.app_state = "build_chat")
              => /\ build_flag_of(session_state')
                 /\ session_state'.build_messages = session_state.build_messages]_vars

\* an interview whose first reply asked on and whose second reply completed it
C28_Witness ==
    /\ app_state = "build_chat"
    /\ http.endpoint = "/build-chat"
    /\ http.status_code = 200
    /\ build_flag_of(session_state)
    /\ Len(session_state.build_messages) = 5
    /\ session_state.messages = <<>>

\* the resume text a session state holds, "" when it holds none
resume_text_of(state) == IF "resume_text" \in DOMAIN state THEN state.resume_text ELSE ""

\* C29: once an analysis or a finished interview has set resume_text, no step
\* but a new-session reset changes it.
C29_ResumeTextImmutable ==
    [][(resume_text_of(session_state) # ""
            /\ session_state'.app_state \notin {"home", "welcome"})
           => resume_text_of(session_state') = resume_text_of(session_state)]_vars

\* a chat two turns after its analysis, with the resume text of the upload
C29_Witness ==
    /\ app_state = "chat_mode"
    /\ session_state.resume_text = "Jane Doe"
    /\ Len(session_state.messages) = 5
    /\ http.endpoint = "/chat"

\* C30: in the analysis review and in the guided chat total_weaknesses is at
\* least 1, so weaknesses_covered / total_weaknesses is defined and within 0..1.
C30_ProgressRatioDefined ==
    app_state \in {"analysis_done", "chat_mode"} =>
        /\ session_state.total_weaknesses >= 1
        /\ 0 <= session_state.weaknesses_covered
        /\ session_state.weaknesses_covered <= session_state.total_weaknesses

\* the review of an analysis whose text said "Total Weaknesses: 0"
C30_Witness ==
    /\ app_state = "analysis_done"
    /\ session_state.analysis_results
           = "Here is the analysis of your resume:\n\nWeaknesses:\n1. Weak verbs"
    /\ session_state.total_weaknesses = 1
    /\ session_state.weaknesses_covered = 0

(***************************************************************************)
(* Properties of the chat's counting and of its requests (under Spec)      *)
(***************************************************************************)

\* the number of assistant messages in a history
assistant_replies(messages) ==
    Cardinality({i \in 1..Len(messages) : messages[i].role = "assistant"})

\* C31: one chat reply raises weaknesses_covered by at most 1, however many
\* times it carries [WEAKNESS_RESOLVED]; so the chat holds at least one reply
\* per covered weakness besides its opening message, and reaching
\* weaknesses_covered = total_weaknesses = N takes at least N successful turns.
C31_AtMostOnePerReply ==
    /\ [][(http'.endpoint = "/chat")
              => /\ session_state'.weaknesses_covered
                        \in {session_state.weaknesses_covered,
                             session_state.weaknesses_covered + 1}
                 /\ session_state'.weaknesses_covered # session_state.weaknesses_covered
                        => /\ http'.status_code = 200
                           /\ http'.data.weakness_resolved]_vars
    /\ [](app_state = "chat_mode"
              => session_state.weaknesses_covered + 1
                     <= assistant_replies(session_state.messages))

\* a reply that carried the marker twice, counted once
C31_Witness ==
    /\ app_state = "chat_mode"
    /\ http.endpoint = "/chat"
    /\ http.status_code = 200
    /\ http.data.ai_response = "Great, both sections look solid."
    /\ http.data.weakness_resolved
    /\ session_state.weaknesses_covered = 1
    /\ session_state.total_weaknesses = 2
    /\ Len(session_state.messages) = 3

\* the last message of a history
last_message(messages) == messages[Len(messages)]

\* the request of the step carries the text just entered as its last message,
\* and the prompt the backend built quotes it as the user's last utterance
carries_entered_text(prompt_text) ==
    /\ Len(http'.payload.messages) >= 1
    /\ last_message(http'.payload.messages) = [role |-> "user", content |-> prompt_text]
    /\ http'.status_code # 0 => http'.prompt.user_prompt = prompt_text

\* C32: every chat-turn and interview-turn request carries a non-empty history
\* whose last message has role user and is the text the user has just entered,
\* so messages[-1].content on the server is defined and is that text.
C32_LastMessageIsTheUsers ==
    /\ [][(http'.endpoint = "/chat")
              => \A prompt_text \in USER_TEXTS, today \in DATES,
                    reply \in engine_replies(CHAT_TEXTS), connected \in BOOLEAN :
                      send_chat_message(prompt_text, today, reply, connected)
                          => carries_entered_text(prompt_text)]_vars
    /\ [][(http'.endpoint = "/build-chat")
              => \A prompt_text \in BUILD_USER_TEXTS,
                    reply \in engine_replies(BUILD_TEXTS), connected \in BOOLEAN :
                      send_build_message(prompt_text, reply, connected)
                          => carries_entered_text(prompt_text)]_vars
    /\ [](http.endpoint \in {"/chat", "/build-chat"}
              => /\ Len(http.payload.messages) >= 1
                 /\ last_message(http.payload.messages).role = "user"
                 /\ http.status_code # 0
                        => http.prompt.user_prompt
                               = last_message(http.payload.messages).content)

\* a chat turn sent after a failed one: the history ends with two user
\* messages, and the prompt quotes the second
C32_Witness ==
    /\ http.endpoint = "/chat"
    /\ http.status_code = 200
    /\ Len(http.payload.messages) = 3
    /\ http.payload.messages[2].content = "I led a team of 5."
    /\ http.payload.messages[3] = [role |-> "user", content |-> "I cut costs by 20%."]
    /\ http.prompt.user_prompt = "I cut costs by 20%."

(***************************************************************************)
(* Properties of the session's mode (under Spec)                           *)
(***************************************************************************)

\* the stages that follow an analysis
AFTER_ANALYSIS == {"analysis_done", "chat_mode"}

\* C33: the job description the analysis ran with is the one the session keeps
\* through review and chat and sends with every chat turn and every document
\* generation, so all of them run in the analysis's variant.
C33_ModeConstantWithinSession ==
    /\ [][(http'.endpoint \in {"/analyze", "/synthesize-and-analyze"}
               /\ http'.status_code = 200)
              => /\ session_state'.app_state = "analysis_done"
                 /\ session_state'.jd_text = http'.payload.jd_text
                 /\ http'.prompt.variant = variant(session_state'.jd_text)]_vars
    /\ [][(session_state.app_state \in AFTER_ANALYSIS
               /\ session_state'.app_state \in AFTER_ANALYSIS)
              => session_state'.jd_text = session_state.jd_text]_vars
    /\ [](http.endpoint \in {"/chat", "/generate-resume"}
              => /\ app_state = "chat_mode"
                 /\ http.payload.jd_text = session_state.jd_text
                 /\ http.status_code # 0
                        => http.prompt.variant = variant(session_state.jd_text))

\* a targeted session whose document was generated for its job description
C33_Witness ==
    /\ app_state = "chat_mode"
    /\ session_state.jd_text = "Python developer"
    /\ http.endpoint = "/generate-resume"
    /\ http.status_code = 200
    /\ http.prompt.variant = "targeted"
    /\ http.payload.jd_text = "Python developer"

\* C34: the review shows "No job description was provided" (ats_score not
\* above 0) only in general mode: a session analysed in targeted mode is
\* never in analysis review with ats_score = 0.
C34_TargetedReviewHasScore ==
    (app_state = "analysis_done" /\ ~is_general_request(session_state.jd_text))
        => session_state.ats_score # 0

(***************************************************************************)
(* Progress of the chat (under SpecLive)                                   *)
(***************************************************************************)

\* the chat has covered every weakness of its analysis
chat_done ==
    /\ app_state = "chat_mode"
    /\ session_state.weaknesses_covered = session_state.total_weaknesses

\* C35: when every request succeeds and the engine keeps resolving in the end,
\* a chat reaches weaknesses_covered = total_weaknesses unless the user resets
\* the session first; from then on no chat turn is sent and weaknesses_covered
\* stays at the total as long as the session stays in the chat.
C35_ChatReachesCompletion ==
    /\ (app_state = "chat_mode") ~> (chat_done \/ app_state # "chat_mode")
    /\ [][(chat_done /\ session_state'.app_state = "chat_mode")
              => /\ http'.endpoint # "/chat"
                 /\ session_state'.weaknesses_covered = session_state.weaknesses_covered
                 /\ session_state'.total_weaknesses = session_state.total_weaknesses
                 /\ session_state'.messages = session_state.messages]_vars

\* a chat of two weaknesses, both covered, with its document generated
C35_Witness ==
    /\ chat_done
    /\ session_state.total_weaknesses = 2
    /\ Len(session_state.messages) = 5
    /\ http.endpoint = "/generate-resume"
    /\ http.status_code = 200

(***************************************************************************)
(* Properties of the document endpoint (under SpecGenerate)                *)
(***************************************************************************)

\* C36: the prompt holds the skeleton of the requested template for classic,
\* modern and skills_first and the classic skeleton for any other name, which
\* does not make the request fail by itself; the file name of a response is
\* improved_resume_<requested name>.pdf, whatever the name.
C36_TemplateFallbackKeepsName ==
    (p_pc = "generated") =>
        /\ p_frags.template_name = "classic" => p_result.prompt.template_str = "classic"
        /\ p_frags.template_name = "modern" => p_result.prompt.template_str = "modern"
        /\ p_frags.template_name = "skills_first"
               => p_result.prompt.template_str = "skills_first"
        /\ p_frags.template_name \notin {"classic", "modern", "skills_first"}
               => p_result.prompt.template_str = "classic"
        /\ p_result.status_code \in {200, 500}
        /\ p_result.status_code = 200
               => p_result.data.filename
                      = "improved_resume_" \o p_frags.template_name \o ".pdf"

\* a document generated for a name that is no template: classic skeleton,
\* file named after the request
C36_Witness ==
    /\ p_pc = "generated"
    /\ p_frags.template_name = "fancy"
    /\ p_result.status_code = 200
    /\ p_result.prompt.template_str = "classic"
    /\ p_result.data.filename = "improved_resume_fancy.pdf"

(***************************************************************************)
(* Properties of the extraction's errors (under Spec)                      *)
(***************************************************************************)

\* C37: an upload of unsupported type is answered with status 400, a file
\* that fails while it is read with status 500.
C37_UnsupportedTypeIsClientError ==
    [][(http'.endpoint = "/analyze")
           => \A file \in UPLOADS, jd_input \in JD_INPUTS, today \in DATES,
                 reply \in engine_replies(ANALYSIS_TEXTS) :
                   analyze_resume(file, jd_input, today, reply, TRUE)
                       => /\ (file.readable /\ file.kind \notin {"txt", "pdf"})
                                 => http'.status_code = 400
                          /\ ~file.readable => http'.status_code = 500]_vars

====
